---- MODULE Spec2Model ----
(***************************************************************************)
(* A model of app.py: the two JSON handlers of the lead finder.            *)
(*                                                                         *)
(*   POST /api/search   api_search: validation, one Places Text Search     *)
(*                      call, then one Place Details call per identifier.  *)
(*   POST /api/export   api_export_csv: the CSV rendering of the           *)
(*                      submitted records.                                 *)
(*                                                                         *)
(* One behaviour is the handling of one request.  A handler is cut into    *)
(* steps at the points where it blocks on the upstream service: each step  *)
(* runs the code from one requests.get to the next one, or to the          *)
(* response.                                                               *)
(*                                                                         *)
(* Python strings are sequences of one-character strings, so that strip()  *)
(* and the f-string of the query are computed, not assumed.  A JSON value  *)
(* is a record [t, n, s]: its type, its number (a float is kept in         *)
(* tenths) and its string.                                                 *)
(***************************************************************************)
EXTENDS Integers, Sequences, FiniteSets, TLC

\* Longest `results` list of a Text Search response.
MaxResults == 2
\* Longest `leads` list submitted to the export.
MaxLeads == 2

VARIABLES
    pc,          \* where the request is: "idle", "search", "details", "done"
    body,        \* the JSON body of the search request
    calls,       \* the outbound calls issued so far, in order, with their outcome
    place_ids,   \* api_search: the identifiers of the search response
    next_token,  \* api_search: the next_page_token of the search response
    leads,       \* api_search: the leads appended so far
    upload,      \* the `leads` value of the export request
    response     \* the HTTP response of the request

vars == <<pc, body, calls, place_ids, next_token, leads, upload, response>>

----------------------------------------------------------------------------
(* JSON values and the Python operations app.py applies to them            *)

\* dict.get(key) on a key the object does not hold
Missing == [t |-> "missing", n |-> 0, s |-> <<>>]
\* JSON null, Python None
Null == [t |-> "null", n |-> 0, s |-> <<>>]
JStr(chars) == [t |-> "str", n |-> 0, s |-> chars]
JInt(i) == [t |-> "int", n |-> i, s |-> <<>>]
\* a float, kept in tenths: JFloat(45) is 4.5
JFloat(tenths) == [t |-> "float", n |-> tenths, s |-> <<>>]
\* a JSON array of n elements, as a field's value
JList(len) == [t |-> "list", n |-> len, s |-> <<>>]

\* Python truthiness, as `or`, `if x` and `not x` use it
Truthy(v) ==
    CASE v.t = "str" -> v.s # <<>>
      [] v.t \in {"int", "float", "list"} -> v.n # 0
      [] OTHER -> FALSE

\* a or b
PyOr(a, b) == IF Truthy(a) THEN a ELSE b

\* dict.get(key): None when the key is missing
Get(v) == IF v.t = "missing" THEN Null ELSE v

\* dict.get(key, default): the default only when the key is missing
GetDefault(v, default) == IF v.t = "missing" THEN default ELSE v

IsSpace(c) == c \in {" ", "\t", "\n"}

RECURSIVE LStrip(_)
LStrip(chars) ==
    IF chars # <<>> /\ IsSpace(Head(chars)) THEN LStrip(Tail(chars)) ELSE chars

RECURSIVE RStrip(_)
RStrip(chars) ==
    IF chars # <<>> /\ IsSpace(chars[Len(chars)])
    THEN RStrip(SubSeq(chars, 1, Len(chars) - 1))
    ELSE chars

\* str.strip()
Strip(chars) == RStrip(LStrip(chars))


----------------------------------------------------------------------------
(* The texts and values the requests and the upstream replies are drawn    *)
(* from                                                                    *)

Cafe == <<"c", "a", "f", "e">>
Oslo == <<"O", "s", "l", "o">>
Tok == <<"t", "k">>
Tok2 == <<"t", "2">>
Blank == <<" ", " ">>
Padded(chars) == <<" ">> \o chars \o <<"\t">>

\* what a client may send as category, location or pageToken: nothing, null,
\* an empty, blank, plain or padded string, or a value that is no string
CategoryValues == {Missing, JStr(Blank), JStr(Padded(Cafe)), JInt(5)}
LocationValues == {Null, JStr(<<>>), JStr(Oslo), JList(1)}
PageTokenValues == {Missing, JStr(Blank), JStr(Padded(Tok)), JInt(5)}

\* The JSON body of a search request: an object with the three fields, a
\* body that is no JSON (get_json(silent=True) is None), or a non-empty
\* JSON array.
SearchBodies ==
    [shape : {"object"}, category : CategoryValues, location : LocationValues,
     pageToken : PageTokenValues]
    \cup [shape : {"invalid", "array"}, category : {Missing},
          location : {Missing}, pageToken : {Missing}]

PlaceIds == {JStr(<<"A">>), JStr(<<"B">>)}

\* the place_id of one element of `results`: an identifier, none, or empty
ResultItems == PlaceIds \cup {Missing, JStr(<<>>)}

SeqsUpTo(S, len) == UNION {[1..k -> S] : k \in 0..len}

\* What requests.get and r.json() can give for the Text Search call: an
\* exception of requests.get (exc), or a reply with a status and a body that
\* is a JSON object, no JSON at all, or a JSON array.
TransportErrors == {"ConnectionError", "Timeout"}
Statuses == {200, 503}

SearchReplies ==
    [exc : TransportErrors, status : {0}, shape : {"none"}, results : {<<>>},
     next : {Missing}]
    \cup [exc : {"none"}, status : Statuses, shape : {"invalid", "array"},
          results : {<<>>}, next : {Missing}]
    \cup [exc : {"none"}, status : Statuses, shape : {"object"},
          results : SeqsUpTo(ResultItems, MaxResults),
          next : {Missing, JStr(Tok2)}]

NoLocation == [t |-> "missing", lat |-> Missing, lng |-> Missing]
NoGeometry == [t |-> "missing", location |-> NoLocation]

\* the `result` of a Place Details reply
NoResult ==
    [t |-> "missing", name |-> Missing, formatted_address |-> Missing,
     rating |-> Missing, user_ratings_total |-> Missing,
     international_phone_number |-> Missing, website |-> Missing,
     place_id |-> Missing, geometry |-> NoGeometry]
\* "result": {}
EmptyResult == [NoResult EXCEPT !.t = "object"]
\* every field of the mask is there
FullResult(pid) ==
    [t |-> "object", name |-> JStr(Cafe), formatted_address |-> JStr(Oslo),
     rating |-> JFloat(45), user_ratings_total |-> JInt(0),
     international_phone_number |-> JStr(<<"+", "4", "7">>),
     website |-> JStr(<<"h", "t", "t", "p">>), place_id |-> pid,
     geometry |-> [t |-> "object",
                   location |-> [t |-> "object", lat |-> JFloat(599),
                                 lng |-> JFloat(0)]]]
\* a result that carries a name and nothing else
NameOnlyResult == [EmptyResult EXCEPT !.name = JStr(Cafe)]
\* "place_id": null, "geometry": null
NullIdResult ==
    [EmptyResult EXCEPT !.name = JStr(Cafe), !.place_id = Null,
                        !.geometry = [NoGeometry EXCEPT !.t = "null"]]
\* "geometry": {"location": null}
NullLocationResult(pid) ==
    [EmptyResult EXCEPT !.place_id = pid,
                        !.geometry = [t |-> "object",
                                      location |-> [NoLocation EXCEPT !.t = "null"]]]

DetailsResults(pid) ==
    {NoResult, EmptyResult, FullResult(pid), NameOnlyResult, NullIdResult,
     NullLocationResult(pid)}

DetailsReplies(pid) ==
    [exc : TransportErrors, status : {0}, shape : {"none"}, result : {NoResult}]
    \cup [exc : {"none"}, status : Statuses, shape : {"invalid", "array"},
          result : {NoResult}]
    \cup [exc : {"none"}, status : Statuses, shape : {"object"},
          result : DetailsResults(pid)]

----------------------------------------------------------------------------
(* The responses                                                           *)

\* `keys` are the keys of a JSON body; `rows` is the CSV document
NoResponse ==
    [status |-> 0, kind |-> "none", keys |-> {}, error |-> "", leads |-> <<>>,
     nextPageToken |-> Missing, rows |-> <<>>]

\* jsonify({"error": message}), status
JsonError(status, message) ==
    [NoResponse EXCEPT !.status = status, !.kind = "json", !.keys = {"error"},
                       !.error = message]

\* an exception no handler of the view catches: Flask answers 500 itself
Unhandled == [NoResponse EXCEPT !.status = 500, !.kind = "html"]

\* the two except clauses of api_search
ExceptClause(exc) ==
    IF exc = "HTTPError"
    THEN JsonError(502, "HTTP error: " \o exc)
    ELSE JsonError(500, exc)

\* jsonify({"leads": [...], "nextPageToken": next_token or ""})
SearchResult(ls, token) ==
    [NoResponse EXCEPT !.status = 200, !.kind = "json",
                       !.keys = {"leads", "nextPageToken"}, !.leads = ls,
                       !.nextPageToken = PyOr(token, JStr(<<>>))]

----------------------------------------------------------------------------
(* api_search: the request up to the Text Search call                      *)

\* (data.get(key) or "").strip() raises AttributeError on a truthy value
\* that is no string
StripRaises(v) == Truthy(v) /\ v.t # "str"

\* (data.get(key) or "").strip()
Field(v) == Strip(PyOr(Get(v), JStr(<<>>)).s)

\* request.get_json(silent=True) or {}: data.get raises AttributeError when
\* the body is a non-empty array
RequestRaises(b) ==
    \/ b.shape = "array"
    \/ StripRaises(b.category)
    \/ StripRaises(b.location)
    \/ StripRaises(b.pageToken)

\* (data.get("pageToken") or "").strip() or None
PageToken(b) == PyOr(JStr(Field(b.pageToken)), Null)

\* Rejected with `and` for `or`: only a request lacking both is turned away
RejectedBothEmpty(b) ==
    (Field(b.category) = <<>> /\ Field(b.location) = <<>>)
    /\ ~Truthy(PageToken(b))

\* if (not category or not location) and not page_token
Rejected(b) ==
    (Field(b.category) = <<>> \/ Field(b.location) = <<>>)
    /\ ~Truthy(PageToken(b))

\* f"{category} in {location}"
Query(b) == Field(b.category) \o <<" ", "i", "n", " ">> \o Field(b.location)

\* TextSearchParams with the query set before the test of the token
TextSearchParamsBoth(query, pagetoken) ==
    IF Truthy(pagetoken)
    THEN [query |-> JStr(query), pagetoken |-> pagetoken]
    ELSE [query |-> JStr(query), pagetoken |-> Missing]

\* the params of google_text_search_once, without the key
TextSearchParams(query, pagetoken) ==
    IF Truthy(pagetoken)
    THEN [query |-> Missing, pagetoken |-> pagetoken]
    ELSE [query |-> JStr(query), pagetoken |-> Missing]

\* a call as the log keeps it: `outcome` is "pending" until requests.get and
\* the code reading its reply are over, then "returned" or "raised"
TextSearchCall(query, pagetoken) ==
    [endpoint |-> "textsearch",
     query |-> TextSearchParams(query, pagetoken).query,
     pagetoken |-> TextSearchParams(query, pagetoken).pagetoken,
     place_id |-> Missing, outcome |-> "pending", exc |-> "none",
     status |-> 0, shape |-> "none", result |-> NoResult]

DetailsCall(pid) ==
    [endpoint |-> "details", query |-> Missing, pagetoken |-> Missing,
     place_id |-> pid, outcome |-> "pending", exc |-> "none", status |-> 0,
     shape |-> "none", result |-> NoResult]

\* The last call of the log with its outcome filled in: whether the code
\* that issued it went on ("returned") or raised, and what came back (the
\* exception of requests.get, the status, the kind of body, the `result`).
Settle(log, outcome, reply, result) ==
    [log EXCEPT ![Len(log)] =
        [@ EXCEPT !.outcome = outcome, !.exc = reply.exc,
                  !.status = reply.status, !.shape = reply.shape,
                  !.result = result]]

ApiSearch(b) ==
    /\ pc = "idle"
    /\ body' = b
    /\ IF RequestRaises(b)
       THEN /\ response' = Unhandled
            /\ pc' = "done"
            /\ calls' = calls
       ELSE IF Rejected(b)
       THEN /\ response' = JsonError(400, "category and location are required")
            /\ pc' = "done"
            /\ calls' = calls
       ELSE /\ calls' = Append(calls, TextSearchCall(Query(b), PageToken(b)))
            /\ pc' = "search"
            /\ response' = response
    /\ UNCHANGED <<place_ids, next_token, leads, upload>>

----------------------------------------------------------------------------
(* google_text_search_once, and api_search up to the first Details call    *)

\* ReplyRaises with a timeout caught and read as an empty reply
ReplyRaisesButTimeout(r) ==
    IF r.exc = "Timeout" THEN "none"
    ELSE IF r.exc # "none" THEN r.exc
    ELSE IF r.shape = "invalid" THEN "JSONDecodeError"
    ELSE IF r.shape = "array" THEN "AttributeError"
    ELSE "none"

\* What requests.get(...) and r.json() and the reading of the body raise:
\* requests.get raises on a transport failure, r.json() on a body that is no
\* JSON, data.get on a body that is no object.  Nothing reads r.status_code.
ReplyRaises(r) ==
    IF r.exc # "none" THEN r.exc
    ELSE IF r.shape = "invalid" THEN "JSONDecodeError"
    ELSE IF r.shape = "array" THEN "AttributeError"
    ELSE "none"

\* [it.get("place_id") for it in data.get("results", []) if it.get("place_id")]
PlaceIdsOf(results) == SelectSeq(results, Truthy)

TextSearchReturn(r) ==
    /\ pc = "search"
    /\ IF ReplyRaises(r) # "none"
       THEN /\ calls' = Settle(calls, "raised", r, NoResult)
            /\ response' = ExceptClause(ReplyRaises(r))
            /\ pc' = "done"
            /\ UNCHANGED <<place_ids, next_token>>
       ELSE /\ place_ids' = PlaceIdsOf(r.results)
            /\ next_token' = Get(r.next)
            /\ IF PlaceIdsOf(r.results) = <<>>
               THEN /\ calls' = Settle(calls, "returned", r, NoResult)
                    /\ response' = SearchResult(<<>>, Get(r.next))
                    /\ pc' = "done"
               ELSE /\ calls' = Append(Settle(calls, "returned", r, NoResult),
                                       DetailsCall(PlaceIdsOf(r.results)[1]))
                    /\ response' = response
                    /\ pc' = "details"
    /\ UNCHANGED <<body, leads, upload>>

----------------------------------------------------------------------------
(* google_place_details, and one turn of the loop of api_search            *)

\* `if not p`: p is None or {}
ResultFalsy(p) ==
    \/ p.t # "object"
    \/ /\ \A f \in {"name", "formatted_address", "rating", "user_ratings_total",
                    "international_phone_number", "website", "place_id"} :
              p[f].t = "missing"
       /\ p.geometry.t = "missing"

\* (p.get("geometry") or {}).get("location", {}) is None when "location" is
\* null, and .get on it raises AttributeError
LeadRaises(p) == p.geometry.t = "object" /\ p.geometry.location.t = "null"

\* (p.get("geometry") or {}).get("location", {}).get(axis)
Coordinate(p, axis) ==
    IF p.geometry.t = "object" /\ p.geometry.location.t = "object"
    THEN Get(p.geometry.location[axis])
    ELSE Null

\* Lead(name=p.get("name", ""), ...)
BuildLead(p) ==
    [name |-> GetDefault(p.name, JStr(<<>>)),
     address |-> GetDefault(p.formatted_address, JStr(<<>>)),
     rating |-> Get(p.rating),
     reviewCount |-> Get(p.user_ratings_total),
     phone |-> Get(p.international_phone_number),
     website |-> Get(p.website),
     placeId |-> GetDefault(p.place_id, JStr(<<>>)),
     lat |-> Coordinate(p, "lat"),
     lng |-> Coordinate(p, "lng")]

\* DetailsRaises with the failures of requests.get caught inside
\* google_place_details and answered None
DetailsRaisesCaught(r) ==
    IF r.exc # "none" THEN "none"
    ELSE IF ReplyRaises(r) # "none" THEN ReplyRaises(r)
    ELSE IF ~ResultFalsy(r.result) /\ LeadRaises(r.result) THEN "AttributeError"
    ELSE "none"

\* what google_place_details raises on reply r
DetailsRaises(r) ==
    IF ReplyRaises(r) # "none" THEN ReplyRaises(r)
    ELSE IF ~ResultFalsy(r.result) /\ LeadRaises(r.result) THEN "AttributeError"
    ELSE "none"

\* Collect with leads.insert(0, lead) for leads.append(lead)
CollectInFront(ls, p) == IF ResultFalsy(p) THEN ls ELSE <<BuildLead(p)>> \o ls

\* lead = google_place_details(pid); if lead: leads.append(lead)
Collect(ls, p) == IF ResultFalsy(p) THEN ls ELSE Append(ls, BuildLead(p))

\* how many Details calls the loop has issued: the index of the current pid
Issued == Len(calls) - 1

\* One turn of `for pid in place_ids`: the reply to the call for the current
\* identifier, then (after time.sleep(0.08), which changes no state) the
\* next call, or the response when the identifiers are exhausted.
DetailsReturn(r) ==
    /\ pc = "details"
    /\ IF DetailsRaises(r) # "none"
       THEN /\ calls' = Settle(calls, "raised", r, NoResult)
            /\ response' = ExceptClause(DetailsRaises(r))
            /\ pc' = "done"
            /\ leads' = leads
       ELSE /\ leads' = Collect(leads, r.result)
            /\ IF Issued < Len(place_ids)
               THEN /\ calls' = Append(Settle(calls, "returned", r, r.result),
                                       DetailsCall(place_ids[Issued + 1]))
                    /\ response' = response
                    /\ pc' = "details"
               ELSE /\ calls' = Settle(calls, "returned", r, r.result)
                    /\ response' = SearchResult(Collect(leads, r.result), next_token)
                    /\ pc' = "done"
    /\ UNCHANGED <<body, place_ids, next_token, upload>>

----------------------------------------------------------------------------
(* api_export_csv                                                          *)

\* the nine keys read from a record, in column order
Columns ==
    <<"name", "address", "rating", "reviewCount", "phone", "website",
      "placeId", "lat", "lng">>

\* the header row
Headers ==
    <<<<"N", "a", "m", "e">>,
      <<"A", "d", "d", "r", "e", "s", "s">>,
      <<"R", "a", "t", "i", "n", "g">>,
      <<"R", "e", "v", "i", "e", "w", " ", "C", "o", "u", "n", "t">>,
      <<"P", "h", "o", "n", "e">>,
      <<"W", "e", "b", "s", "i", "t", "e">>,
      <<"P", "l", "a", "c", "e", " ", "I", "D">>,
      <<"L", "a", "t", "i", "t", "u", "d", "e">>,
      <<"L", "o", "n", "g", "i", "t", "u", "d", "e">>>>

Digit(d) == <<"0", "1", "2", "3", "4", "5", "6", "7", "8", "9">>[d + 1]

\* str(i) of an int i >= 0
RECURSIVE IntText(_)
IntText(i) ==
    IF i < 10 THEN <<Digit(i)>> ELSE Append(IntText(i \div 10), Digit(i % 10))

\* What csv.writer writes for a field: "" for None, the string itself, str()
\* of anything else (repr of a float: 4.5, 0.0).  Quoting is left out: a cell
\* is the text a CSV reader gets back.
CsvText(v) ==
    CASE v.t = "str" -> v.s
      [] v.t = "int" -> IntText(v.n)
      [] v.t = "float" -> IntText(v.n \div 10) \o <<".">> \o IntText(v.n % 10)
      [] OTHER -> <<>>

\* l.get(key, "") or ""
Cell(v) == CsvText(PyOr(GetDefault(v, JStr(<<>>)), JStr(<<>>)))

\* the list handed to writer.writerow for record l
Row(l) == [c \in 1..Len(Columns) |-> Cell(l[Columns[c]])]

\* WriteRows that leaves out a row equal to one already written
RECURSIVE WriteRowsOnce(_, _)
WriteRowsOnce(rows, items) ==
    IF items = <<>> THEN rows
    ELSE IF \E i \in 2..Len(rows) : rows[i] = Row(Head(items))
    THEN WriteRowsOnce(rows, Tail(items))
    ELSE WriteRowsOnce(Append(rows, Row(Head(items))), Tail(items))

\* for l in leads: writer.writerow([...])
RECURSIVE WriteRows(_, _)
WriteRows(rows, items) ==
    IF items = <<>> THEN rows
    ELSE WriteRows(Append(rows, Row(Head(items))), Tail(items))

\* make_response(csv_bytes) with the text/csv headers
CsvResponse(rows) ==
    [NoResponse EXCEPT !.status = 200, !.kind = "csv", !.rows = rows]

\* a record with none of the nine keys
EmptyRecord ==
    [t |-> "object", name |-> Missing, address |-> Missing, rating |-> Missing,
     reviewCount |-> Missing, phone |-> Missing, website |-> Missing,
     placeId |-> Missing, lat |-> Missing, lng |-> Missing]

\* a record with the nine keys populated
FullRecord ==
    [t |-> "object", name |-> JStr(Cafe), address |-> JStr(Oslo),
     rating |-> JFloat(45), reviewCount |-> JInt(12), phone |-> JStr(<<"+", "4", "7">>),
     website |-> JStr(<<"h", "t", "t", "p">>), placeId |-> JStr(<<"A">>),
     lat |-> JFloat(599), lng |-> JFloat(107)]

\* the values a client may put under a key, by the key's type in Lead
FieldValues(key) ==
    {Missing, Null}
    \cup (CASE key \in {"rating", "lat", "lng"} -> {JFloat(0), JFloat(45)}
            [] key = "reviewCount" -> {JInt(0), JInt(12)}
            [] OTHER -> {JStr(<<>>), JStr(Cafe)})

\* The elements of a submitted list: the full record, the full record with
\* one key changed, the empty record, and two elements that are no objects.
Records ==
    {FullRecord, EmptyRecord}
    \cup UNION {{[FullRecord EXCEPT ![Columns[c]] = v] : v \in FieldValues(Columns[c])} :
                  c \in 1..Len(Columns)}
    \cup {[EmptyRecord EXCEPT !.t = "int"], [EmptyRecord EXCEPT !.t = "null"]}


\* The body of an export request: `t` is the type of data.get("leads") and
\* `items` its elements when it is a list.  As for the search, the body may
\* be no JSON or a non-empty array.
Uploads ==
    [shape : {"object"}, t : {"list"}, items : SeqsUpTo(Records, MaxLeads)]
    \cup [shape : {"object"}, t : {"missing", "null", "int", "str", "object"},
          items : {<<>>}]
    \cup [shape : {"invalid", "array"}, t : {"missing"}, items : {<<>>}]

\* data.get on a body that is a non-empty array, or l.get on an element that
\* is no object, raises AttributeError; the view has no try.
ExportRaises(u) ==
    \/ u.shape = "array"
    \/ u.t = "list" /\ \E i \in 1..Len(u.items) : u.items[i].t # "object"

ApiExportCsv(u) ==
    /\ pc = "idle"
    /\ upload' = u
    /\ pc' = "done"
    /\ response' =
         IF u.shape = "array" THEN Unhandled
         ELSE IF u.t # "list" THEN JsonError(400, "No leads provided")
         ELSE IF ExportRaises(u) THEN Unhandled
         ELSE CsvResponse(WriteRows(<<Headers>>, u.items))
    /\ UNCHANGED <<body, calls, place_ids, next_token, leads>>

----------------------------------------------------------------------------
(* The specification                                                       *)

Init ==
    /\ pc = "idle"
    /\ body = [shape |-> "none", category |-> Missing, location |-> Missing,
               pageToken |-> Missing]
    /\ calls = <<>>
    /\ place_ids = <<>>
    /\ next_token = Null
    /\ leads = <<>>
    /\ upload = [shape |-> "none", t |-> "missing", items |-> <<>>]
    /\ response = NoResponse

SearchRequest ==
    /\ pc = "idle"
    /\ \E b \in SearchBodies : ApiSearch(b)

TextSearchReply ==
    /\ pc = "search"
    /\ \E r \in SearchReplies : TextSearchReturn(r)

DetailsReply ==
    /\ pc = "details"
    /\ \E r \in DetailsReplies(place_ids[Issued]) : DetailsReturn(r)

ExportRequest ==
    /\ pc = "idle"
    /\ \E u \in Uploads : ApiExportCsv(u)

Next == SearchRequest \/ TextSearchReply \/ DetailsReply \/ ExportRequest

Spec == Init /\ [][Next]_vars

----------------------------------------------------------------------------
(* The vocabulary of the properties                                        *)

SearchDone == pc = "done" /\ body.shape # "none"
ExportDone == pc = "done" /\ upload.shape # "none"

\* the calls whose outcome is known
Settled == {i \in 1..Len(calls) : calls[i].outcome # "pending"}

\* a transport failure: requests.get raised (network failure, timeout)
TransportFailed(c) == c.exc \in TransportErrors

\* a reply with a status that is no success
BadStatus(c) == c.exc = "none" /\ c.outcome # "pending" /\ c.status # 200

\* a string with nothing but white space in it
AllSpace(chars) == \A i \in 1..Len(chars) : IsSpace(chars[i])

\* a field that is absent, null, empty or white space only
Empty(v) == v.t \in {"missing", "null"} \/ (v.t = "str" /\ AllSpace(v.s))

\* The trimmed form of a string, said without strip(): the one substring
\* with white space only around it and none at its own ends.
Trimmed(chars) ==
    CHOOSE sub \in {SubSeq(chars, i, j) : i \in 1..(Len(chars) + 1), j \in 0..Len(chars)} :
        /\ \E i \in 1..(Len(chars) + 1), j \in 0..Len(chars) :
              /\ sub = SubSeq(chars, i, j)
              /\ AllSpace(SubSeq(chars, 1, i - 1))
              /\ AllSpace(SubSeq(chars, j + 1, Len(chars)))
        /\ sub # <<>> => ~IsSpace(sub[1]) /\ ~IsSpace(sub[Len(sub)])

\* the trimmed text of a field, empty when the field is absent or null
Text(v) == IF v.t = "str" THEN Trimmed(v.s) ELSE <<>>

\* the body is a JSON object (or no JSON at all) whose three fields are each
\* absent, null or a string
StringFields(b) ==
    /\ b.shape \in {"object", "invalid"}
    /\ \A v \in {b.category, b.location, b.pageToken} :
          v.t \in {"missing", "null", "str"}

----------------------------------------------------------------------------
(* C1 *)

\* C1: whenever an outbound call of a search request failed (network failure,
\* timeout, or a status that is no success), the request is answered 502
\* with a JSON body carrying `error`, never 500 and never a 200 result.
C1_UpstreamFailureIs502 ==
    (SearchDone /\ \E i \in Settled : TransportFailed(calls[i]) \/ BadStatus(calls[i]))
        => /\ response.status = 502
           /\ response.kind = "json"
           /\ response.keys = {"error"}

----------------------------------------------------------------------------
(* C2 *)

\* the condition under which the specification rejects a search request
MustReject(b) ==
    Empty(b.pageToken) /\ (Empty(b.category) \/ Empty(b.location))

\* C2: a search request whose fields are strings, null or absent is answered
\* 400 with no outbound call issued exactly when the page token is absent or
\* blank and the category or the location is empty or blank; every other such
\* request passes validation and the search endpoint is called.
C2_RejectedExactlyWhenIncomplete ==
    (pc # "idle" /\ body.shape # "none" /\ StringFields(body))
        => /\ (response.status = 400) <=> MustReject(body)
           /\ response.status = 400 =>
                 calls = <<>> /\ response.keys = {"error"} /\ pc = "done"
           /\ ~MustReject(body) =>
                 calls # <<>> /\ calls[1].endpoint = "textsearch"

\* a request with a blank page token and no location is rejected, no call made
C2_Witness ==
    /\ SearchDone
    /\ body.pageToken = JStr(Blank)
    /\ body.category = JStr(Padded(Cafe))
    /\ body.location = JStr(<<>>)
    /\ response.status = 400
    /\ calls = <<>>

----------------------------------------------------------------------------
(* C3 *)

\* C3: the search call of a validated request carries exactly one of `query`
\* and `pagetoken`: without a page token, `query` is the trimmed category,
\* " in ", the trimmed location; with one, `pagetoken` is the (trimmed) token
\* and there is no `query`, whatever category and location were sent.
C3_QueryOrTokenNeverBoth ==
    calls # <<>> =>
        /\ calls[1].endpoint = "textsearch"
        /\ (calls[1].query.t = "missing") # (calls[1].pagetoken.t = "missing")
        /\ IF Empty(body.pageToken)
           THEN /\ calls[1].query =
                      JStr(Text(body.category) \o <<" ", "i", "n", " ">>
                           \o Text(body.location))
                /\ calls[1].pagetoken = Missing
           ELSE /\ calls[1].pagetoken = JStr(Text(body.pageToken))
                /\ calls[1].query = Missing

\* a padded category gave the query "cafe in Oslo", and elsewhere a token was
\* sent for a request that had no location
C3_Witness ==
    /\ calls # <<>>
    /\ body.category = JStr(Padded(Cafe))
    /\ body.location = JStr(Oslo)
    /\ body.pageToken = Missing
    /\ calls[1].query = JStr(<<"c", "a", "f", "e", " ", "i", "n", " ", "O", "s", "l", "o">>)

\* a page token was sent alone although category and location were there
C3_WitnessToken ==
    /\ calls # <<>>
    /\ body.pageToken = JStr(Padded(Tok))
    /\ body.location = JStr(Oslo)
    /\ calls[1].pagetoken = JStr(Tok)
    /\ calls[1].query = Missing

----------------------------------------------------------------------------
(* C4 *)

\* the leads of the Details calls i..Len(log) whose `result` was not empty,
\* in the order of the calls
RECURSIVE LeadsOf(_, _)
LeadsOf(log, i) ==
    IF i > Len(log) THEN <<>>
    ELSE IF ResultFalsy(log[i].result) THEN LeadsOf(log, i + 1)
    ELSE <<BuildLead(log[i].result)>> \o LeadsOf(log, i + 1)

\* C4: a search answered with a result holds exactly the leads built for the
\* identifiers whose lookup gave a result, in the order of the identifiers;
\* a lookup with no result is skipped and does not fail the request, so there
\* are never more leads than identifiers.
C4_LeadsAreFoundIdsInOrder ==
    (SearchDone /\ response.status = 200)
        => /\ Len(calls) = Len(place_ids) + 1
           /\ \A i \in 1..Len(place_ids) : calls[i + 1].place_id = place_ids[i]
           /\ response.leads = LeadsOf(calls, 2)
           /\ Len(response.leads) <= Len(place_ids)

\* two identifiers, the first not found, the second found: one lead, the
\* second identifier's
C4_Witness ==
    /\ SearchDone
    /\ response.status = 200
    /\ Len(place_ids) = 2
    /\ place_ids[1] # place_ids[2]
    /\ ResultFalsy(calls[2].result)
    /\ Len(response.leads) = 1
    /\ response.leads[1].placeId = place_ids[2]

----------------------------------------------------------------------------
(* C5 *)

----------------------------------------------------------------------------
(* C6 *)

\* the fields that hold numbers in the data model
Numeric == {"rating", "reviewCount", "lat", "lng"}

\* C6: in the CSV of a list of records, the cell of a field that is present
\* and not null is the text of its value, zero included (a number never gives
\* an empty cell), and the cell of a missing or null field is empty.
C6_CellIsTextOfValue ==
    (ExportDone /\ response.kind = "csv") =>
        \A i \in 1..Len(upload.items) : \A c \in 1..Len(Columns) :
            LET v == upload.items[i][Columns[c]]
                cell == response.rows[i + 1][c]
            IN  IF v.t \in {"missing", "null"}
                THEN cell = <<>>
                ELSE /\ cell = CsvText(v)
                     /\ Columns[c] \in Numeric => cell # <<>>

----------------------------------------------------------------------------
(* C7 *)

\* C7: an export request (a JSON object whose `leads` is absent, null, a
\* scalar, an object or a list of any values) ends in one of two ways: 400 {error: "No leads
\* provided"} with no CSV, exactly when `leads` is not a list, or a complete
\* CSV document; never in another status.
C7_Only400OrCsv ==
    (ExportDone /\ upload.shape = "object") =>
        \/ /\ upload.t # "list"
           /\ response.status = 400
           /\ response.error = "No leads provided"
           /\ response.rows = <<>>
        \/ /\ upload.t = "list"
           /\ response.status = 200
           /\ response.kind = "csv"
           /\ Len(response.rows) = Len(upload.items) + 1

----------------------------------------------------------------------------
(* C8 *)

\* every element of the submitted list is a record (a JSON object)
AllRecords(u) ==
    /\ u.shape = "object"
    /\ u.t = "list"
    /\ \A i \in 1..Len(u.items) : u.items[i].t = "object"

\* C8: the CSV of a list of records is the header row of nine columns and
\* then one row per record, in the order of the list, nothing dropped,
\* merged, sorted or deduplicated; the empty list gives the header alone.
C8_OneRowPerRecordInOrder ==
    (ExportDone /\ AllRecords(upload)) =>
        /\ response.kind = "csv"
        /\ Len(response.rows) = Len(upload.items) + 1
        /\ response.rows[1] = Headers
        /\ Len(Headers) = Cardinality({Headers[c] : c \in 1..Len(Headers)})
        /\ \A i \in 1..Len(response.rows) : Len(response.rows[i]) = Len(Columns)
        /\ \A i \in 1..Len(upload.items) : response.rows[i + 1] = Row(upload.items[i])

\* the same record twice, without a placeId: two equal rows after the header
C8_Witness ==
    /\ ExportDone
    /\ AllRecords(upload)
    /\ Len(upload.items) = 2
    /\ upload.items[1] = upload.items[2]
    /\ upload.items[1].placeId = Missing
    /\ Len(response.rows) = 3
    /\ response.rows[2] = response.rows[3]

----------------------------------------------------------------------------
(* C9 *)

\* C9: every lead of a successful search response has a placeId that is a
\* string and is not empty.
C9_PlaceIdNeverEmpty ==
    (SearchDone /\ response.status = 200) =>
        \A i \in 1..Len(response.leads) :
            /\ response.leads[i].placeId.t = "str"
            /\ response.leads[i].placeId.s # <<>>

----------------------------------------------------------------------------
(* C10 *)

====
